---- MODULE Spec2Model ----
(***************************************************************************)
(* Model of the clipboard image viewer: the hotkey monitor                 *)
(* (clipboard_monitor.py), the shortcut recording dialog                   *)
(* (shortcut_dialog.py) and the configuration store (config.py).           *)
(*                                                                         *)
(* Time is counted in ticks of 0.1 s.                                      *)
(***************************************************************************)
EXTENDS Integers, Sequences, FiniteSets, TLC

\* ------------------------------------------------------------------ bounds
\* time.time() at construction, in ticks (any value >= DebounceInterval).
StartTime == 5
\* How many ticks the clock advances in a run.
Horizon == 6
MaxTime == StartTime + Horizon
\* How many keyboard.Listener objects start() may create in a run.
MaxListeners == 2

\* ------------------------------------------------------- program constants
\* self._debounce_interval = 0.5 (seconds), in ticks.
DebounceInterval == 5
\* time.sleep(0.1) in check_clipboard, in ticks.
SettleDelay == 1

\* --------------------------------------------------------------- key model
\* pynput hands the callbacks either a keyboard.Key (an enum member: it has a
\* name, and neither char nor vk) or a keyboard.KeyCode (it has char and vk,
\* either of which may be None, and no name).  None and the empty string are
\* both falsy in Python; None is modelled as "" for strings and 0 for codes:
\* KeyCode("", 0) is a KeyCode with neither char nor vk.
Key(n) ==
    [has_char |-> FALSE, char |-> "", has_vk |-> FALSE, vk |-> 0,
     has_name |-> TRUE, name |-> n]

KeyCode(c, v) ==
    [has_char |-> TRUE, char |-> c, has_vk |-> TRUE, vk |-> v,
     has_name |-> FALSE, name |-> ""]

\* An object with none of the attributes char, vk, name.
BareKey ==
    [has_char |-> FALSE, char |-> "", has_vk |-> FALSE, vk |-> 0,
     has_name |-> FALSE, name |-> ""]

IsCtrlKey(key) == key = Key("ctrl_l") \/ key = Key("ctrl_r")
IsAltKey(key) == key = Key("alt_l") \/ key = Key("alt_r") \/ key = Key("alt_gr")
IsShiftKey(key) == key = Key("shift_l") \/ key = Key("shift_r")
IsModifierKey(key) == IsCtrlKey(key) \/ IsAltKey(key) \/ IsShiftKey(key)

\* The modifier kind ('ctrl', 'alt', 'shift') a physical modifier key belongs to.
KindOf(key) ==
    IF IsCtrlKey(key) THEN "ctrl" ELSE IF IsAltKey(key) THEN "alt" ELSE "shift"

\* str.lower() on the strings that occur as characters, names and configured
\* keys.  "^V" stands for the control character '\x16' that Ctrl+V produces.
UpperToLower ==
    ("V" :> "v") @@ ("A" :> "a") @@ ("B" :> "b") @@ ("F1" :> "f1") @@
    ("F2" :> "f2") @@ ("CTRL_L" :> "ctrl_l") @@ ("SHIFT" :> "shift")

Lower(s) == IF s \in DOMAIN UpperToLower THEN UpperToLower[s] ELSE s

VK_CODES ==
    ("a" :> 65) @@ ("b" :> 66) @@ ("c" :> 67) @@ ("d" :> 68) @@ ("e" :> 69) @@
    ("f" :> 70) @@ ("g" :> 71) @@ ("h" :> 72) @@ ("i" :> 73) @@ ("j" :> 74) @@
    ("k" :> 75) @@ ("l" :> 76) @@ ("m" :> 77) @@ ("n" :> 78) @@ ("o" :> 79) @@
    ("p" :> 80) @@ ("q" :> 81) @@ ("r" :> 82) @@ ("s" :> 83) @@ ("t" :> 84) @@
    ("u" :> 85) @@ ("v" :> 86) @@ ("w" :> 87) @@ ("x" :> 88) @@ ("y" :> 89) @@
    ("z" :> 90) @@
    ("0" :> 48) @@ ("1" :> 49) @@ ("2" :> 50) @@ ("3" :> 51) @@ ("4" :> 52) @@
    ("5" :> 53) @@ ("6" :> 54) @@ ("7" :> 55) @@ ("8" :> 56) @@ ("9" :> 57) @@
    ("f1" :> 112) @@ ("f2" :> 113) @@ ("f3" :> 114) @@ ("f4" :> 115) @@
    ("f5" :> 116) @@ ("f6" :> 117) @@ ("f7" :> 118) @@ ("f8" :> 119) @@
    ("f9" :> 120) @@ ("f10" :> 121) @@ ("f11" :> 122) @@ ("f12" :> 123)

\* VK_CODES.get(k): None (modelled as 0) for a key that is not in the table.
VkGet(k) == IF k \in DOMAIN VK_CODES THEN VK_CODES[k] ELSE 0

\* ---------------------------------------------------------- input alphabets
\* The physical modifier keys the environment presses and releases.
ModifierKeys == {Key("ctrl_l"), Key("ctrl_r"), Key("shift_l")}

\* The other keys: 'v' as pynput reports it plain, with Shift and with Ctrl
\* held, 'a', the function key F1, a key known by its code only, and a key
\* object with no attribute at all.
PlainKeys ==
    {KeyCode("v", 86), KeyCode("V", 86), KeyCode("^V", 86), KeyCode("a", 65),
     Key("f1"), KeyCode("", 86), BareKey}

\* The shortcuts that occur in the configuration file.  A shortcut is a dict:
\* a function whose domain is a subset of {"modifiers", "key"}.
ConfigShortcuts ==
    {[modifiers |-> {"ctrl", "shift"}, key |-> "V"],
     [modifiers |-> {"shift"}, key |-> "f1"]}

\* ------------------------------------------------------------ configuration
ConfigKeys == {"save_folder", "auto_start_enabled", "shortcut"}

\* get_default_shortcut().  The JSON list of modifiers is modelled as a set.
DefaultShortcut == [modifiers |-> {"ctrl"}, key |-> "v"]

DefaultConfig ==
    [save_folder |-> "Documents/ClipboardImages", auto_start_enabled |-> FALSE,
     shortcut |-> DefaultShortcut]

\* The configuration file holds a JSON object: a function whose domain is a
\* subset of ConfigKeys.  A missing or unreadable file loads like the empty
\* object: the defaults are filled in for every missing key.
NoFile == [k \in {} |-> FALSE]

LoadConfig(file) ==
    [k \in ConfigKeys |-> IF k \in DOMAIN file THEN file[k] ELSE DefaultConfig[k]]

GetShortcut(file) == LoadConfig(file)["shortcut"]

\* shortcut.get(field, default)
DictGet(d, field, default) == IF field \in DOMAIN d THEN d[field] ELSE default

\* The chord reload_shortcut() computes from a stored shortcut.
LoadedModifiers(sc) == DictGet(sc, "modifiers", {"ctrl"})
\* The configured key taken as it is stored, without .lower().
LoadedKeyAsStored(sc) == DictGet(sc, "key", "v")
LoadedKey(sc) == Lower(DictGet(sc, "key", "v"))
LoadedVk(sc) == VkGet(LoadedKey(sc))

FileWithShortcut(sc) ==
    [save_folder |-> "Documents/ClipboardImages", auto_start_enabled |-> FALSE,
     shortcut |-> sc]

InitialConfigFiles == {NoFile} \cup {FileWithShortcut(sc) : sc \in ConfigShortcuts}

\* The three setters of config.py; each runs on a thread of its own: the
\* shortcut dialog's, the folder picker's, the tray menu's.
SetterNames == {"set_shortcut", "set_save_folder", "set_auto_start_enabled"}

\* The key of the configuration a setter assigns.
SetterKey(s) ==
    CASE s = "set_shortcut" -> "shortcut"
      [] s = "set_save_folder" -> "save_folder"
      [] s = "set_auto_start_enabled" -> "auto_start_enabled"

\* The values the setters are called with.
SetterValues(s) ==
    CASE s = "set_shortcut" ->
           {[modifiers |-> {"alt"}, key |-> "f1"],
            [modifiers |-> {"ctrl", "shift"}, key |-> "s"]}
      [] s = "set_save_folder" -> {"D:/shots", "E:/img"}
      [] s = "set_auto_start_enabled" -> {TRUE, FALSE}

\* A setter that has not been called: where it is, and its local config.
IdleSetter == [pc |-> "idle", config |-> NoFile]

\* ------------------------------------------------------------------- state
ListenerIds == 1..MaxListeners

VARIABLES
    \* ClipboardMonitor
    running, listener, last_paste_time,
    ctrl_pressed, alt_pressed, shift_pressed,
    required_modifiers, trigger_key, trigger_vk,
    \* the capture threads started by _handle_paste, in starting order
    tasks,
    \* the debug output of _handle_paste: whether it has been called an odd
    \* number of times, and whether its last call started a capture thread
    log,
    \* the environment: the clock, the physical modifier keys that are down,
    \* whether every change of a modifier key so far reached the monitor's
    \* listener, and the configuration file
    now, down, all_delivered, config_file,
    \* the listener threads' callbacks in progress and reload_shortcut() in
    \* progress, for the interleaved specification
    lt, rl,
    \* ShortcutDialog
    dlg_open, recording, modifiers, rec_key, dlg_listener, save_enabled,
    \* whether a callback of the dialog's listener ended by an exception
    dlg_error,
    \* whether, since the last recording started, the thread of a stopped
    \* dialog listener still called a callback
    late,
    \* the calls of the configuration setters in progress, one per thread
    setters

flagVars == <<ctrl_pressed, alt_pressed, shift_pressed>>
chordVars == <<required_modifiers, trigger_key, trigger_vk>>
lifeVars == <<running, listener>>
pasteVars == <<last_paste_time, tasks, log>>
keyVars == <<down, all_delivered, late>>
concVars == <<lt, rl>>
cfgVars == <<config_file, setters>>
dlgVars ==
    <<dlg_open, recording, modifiers, rec_key, dlg_listener, save_enabled,
      dlg_error>>
vars ==
    <<running, listener, last_paste_time, ctrl_pressed, alt_pressed,
      shift_pressed, required_modifiers, trigger_key, trigger_vk, tasks, log,
      now, down, all_delivered, config_file, lt, rl, dlg_open, recording,
      modifiers, rec_key, dlg_listener, save_enabled, dlg_error, late,
      setters>>

\* A listener thread that runs no callback: where it is in _on_press, the key
\* it was called with, the required modifiers _check_modifiers_match compared
\* with, and _handle_paste's current_time.
IdleThread == [pc |-> "idle", key |-> BareKey, seen_mods |-> {}, current_time |-> 0]

\* No reload_shortcut() in progress: where it is, and its local shortcut.
IdleReload == [pc |-> "idle", shortcut |-> DefaultShortcut]

\* ClipboardMonitor.__init__ (which ends with reload_shortcut()) and
\* ShortcutDialog.__init__.
Init ==
    /\ config_file \in InitialConfigFiles
    /\ running = FALSE
    /\ listener = 0
    /\ last_paste_time = 0
    /\ ctrl_pressed = FALSE
    /\ alt_pressed = FALSE
    /\ shift_pressed = FALSE
    /\ required_modifiers = LoadedModifiers(GetShortcut(config_file))
    /\ trigger_key = LoadedKey(GetShortcut(config_file))
    /\ trigger_vk = LoadedVk(GetShortcut(config_file))
    /\ tasks = <<>>
    /\ log = [odd |-> FALSE, fired |-> FALSE]
    /\ now = StartTime
    /\ down = {}
    /\ all_delivered = TRUE
    /\ lt = [i \in ListenerIds |-> IdleThread]
    /\ rl = IdleReload
    /\ dlg_open = FALSE
    /\ recording = FALSE
    /\ modifiers = {}
    /\ rec_key = ""
    /\ dlg_listener = FALSE
    /\ save_enabled = FALSE
    /\ dlg_error = FALSE
    /\ late = FALSE
    /\ setters = [s \in SetterNames |-> IdleSetter]

\* ------------------------------------------------------ ClipboardMonitor
\* _check_modifiers_match: the set built from the three flags.
CurrentModifiers ==
    (IF ctrl_pressed THEN {"ctrl"} ELSE {}) \cup
    (IF alt_pressed THEN {"alt"} ELSE {}) \cup
    (IF shift_pressed THEN {"shift"} ELSE {})

CheckModifiersMatch(required) == CurrentModifiers = required

\* _is_trigger_key, its three checks in order.
CharMatches(key, tkey) ==
    key.has_char /\ key.char # "" /\ Lower(key.char) = tkey

VkMatches(key, tvk) == key.has_vk /\ tvk # 0 /\ key.vk = tvk

NameMatches(key, tkey) ==
    key.has_name /\ key.name # "" /\ Lower(key.name) = tkey

IsTriggerKey(key, tkey, tvk) ==
    CharMatches(key, tkey) \/ VkMatches(key, tvk) \/ NameMatches(key, tkey)

\* The debounce test with <= for <: a press exactly debounce_interval after
\* the last trigger is suppressed.
DebouncedInclusive(current_time, last) == current_time - last <= DebounceInterval

\* _handle_paste: the debounce test.
Debounced(current_time, last) == current_time - last < DebounceInterval

\* The debug output after one more call of _handle_paste.
Logged(fired) == [odd |-> ~log.odd, fired |-> fired]

\* threading.Thread(target=check_clipboard, daemon=True).start()
NewTask(t) == [start |-> t, pc |-> "sleep", image |-> "", extracts |-> 0, calls |-> 0]

\* _handle_paste calling check_clipboard itself instead of starting a thread
\* for it: the read and the callback are over when it returns.
HandlePasteInline ==
    LET current_time == now IN
    IF Debounced(current_time, last_paste_time)
    THEN /\ log' = Logged(FALSE)
         /\ UNCHANGED <<last_paste_time, tasks>>
    ELSE /\ last_paste_time' = current_time
         /\ tasks' = Append(tasks, [start |-> current_time, pc |-> "done",
                                    image |-> "RGB", extracts |-> 1, calls |-> 1])
         /\ log' = Logged(TRUE)

\* _handle_paste assigning _last_paste_time before the debounce test decides:
\* a suppressed press restarts the window.
HandlePasteSlidingWindow ==
    LET current_time == now IN
    IF Debounced(current_time, last_paste_time)
    THEN /\ log' = Logged(FALSE)
         /\ last_paste_time' = current_time
         /\ UNCHANGED tasks
    ELSE /\ last_paste_time' = current_time
         /\ tasks' = Append(tasks, NewTask(current_time))
         /\ log' = Logged(TRUE)

\* _handle_paste, as one step.
HandlePaste ==
    LET current_time == now IN
    IF Debounced(current_time, last_paste_time)
    THEN /\ log' = Logged(FALSE)
         /\ UNCHANGED <<last_paste_time, tasks>>
    ELSE /\ last_paste_time' = current_time
         /\ tasks' = Append(tasks, NewTask(current_time))
         /\ log' = Logged(TRUE)

\* _on_press without the return in its modifier branches: after the flag is
\* set, the key is compared with the chord like any other.
OnPressFallsThrough(key) ==
    /\ ctrl_pressed' = (ctrl_pressed \/ IsCtrlKey(key))
    /\ alt_pressed' = (alt_pressed \/ IsAltKey(key))
    /\ shift_pressed' = (shift_pressed \/ IsShiftKey(key))
    /\ IF <<ctrl_pressed', alt_pressed', shift_pressed'>> =
             <<"ctrl" \in required_modifiers, "alt" \in required_modifiers,
               "shift" \in required_modifiers>>
          /\ IsTriggerKey(key, trigger_key, trigger_vk)
       THEN HandlePaste
       ELSE UNCHANGED pasteVars

\* _on_press, as one step.
OnPress(key) ==
    IF IsCtrlKey(key)
    THEN ctrl_pressed' = TRUE /\ UNCHANGED <<alt_pressed, shift_pressed, pasteVars>>
    ELSE IF IsAltKey(key)
    THEN alt_pressed' = TRUE /\ UNCHANGED <<ctrl_pressed, shift_pressed, pasteVars>>
    ELSE IF IsShiftKey(key)
    THEN shift_pressed' = TRUE /\ UNCHANGED <<ctrl_pressed, alt_pressed, pasteVars>>
    ELSE /\ UNCHANGED flagVars
         /\ IF CheckModifiersMatch(required_modifiers)
               /\ IsTriggerKey(key, trigger_key, trigger_vk)
            THEN HandlePaste
            ELSE UNCHANGED pasteVars

\* _on_release
OnRelease(key) ==
    /\ UNCHANGED pasteVars
    /\ IF IsCtrlKey(key)
       THEN ctrl_pressed' = FALSE /\ UNCHANGED <<alt_pressed, shift_pressed>>
       ELSE IF IsAltKey(key)
       THEN alt_pressed' = FALSE /\ UNCHANGED <<ctrl_pressed, shift_pressed>>
       ELSE IF IsShiftKey(key)
       THEN shift_pressed' = FALSE /\ UNCHANGED <<ctrl_pressed, alt_pressed>>
       ELSE UNCHANGED flagVars

\* The listener a start() creates: one whose thread is not still running a
\* callback of an earlier, stopped listener.
FreeListeners == {i \in ListenerIds : lt[i].pc = "idle"}
FreshListener == CHOOSE i \in FreeListeners : \A j \in FreeListeners : i <= j

\* start()
Start ==
    /\ IF running
       THEN UNCHANGED lifeVars
       ELSE /\ FreeListeners # {}
            /\ running' = TRUE
            /\ listener' = FreshListener
    /\ UNCHANGED <<flagVars, chordVars, pasteVars, now, keyVars, cfgVars,
                   concVars, dlgVars>>

\* start() in which keyboard.Listener(...) or listener.start() raises: the
\* exception leaves start() after self.running = True, with no listener
\* running.
StartFails ==
    /\ ~running
    /\ running' = TRUE
    /\ listener' = 0
    /\ UNCHANGED <<flagVars, chordVars, pasteVars, now, keyVars, cfgVars,
                   concVars, dlgVars>>

\* stop() without self.listener.stop(): the listener stays.
StopKeepsListener ==
    /\ running' = FALSE
    /\ UNCHANGED <<listener, flagVars, chordVars, pasteVars, now, keyVars,
                   cfgVars, concVars, dlgVars>>

\* stop() that also drops the capture threads that have not ended.
StopCancelsTasks ==
    /\ running' = FALSE
    /\ listener' = 0
    /\ tasks' = SelectSeq(tasks, LAMBDA t : t.pc = "done")
    /\ UNCHANGED <<flagVars, chordVars, last_paste_time, log, now, keyVars,
                   cfgVars, concVars, dlgVars>>

\* stop()
Stop ==
    /\ running' = FALSE
    /\ listener' = 0
    /\ UNCHANGED <<flagVars, chordVars, pasteVars, now, keyVars, cfgVars,
                   concVars, dlgVars>>

\* ------------------------------------------------------- capture threads
\* What ImageGrab.grabclipboard() may give: nothing, an image (of mode RGBA,
\* RGB or another one, here P), a list of file paths, a value of another
\* type, or an exception.
GrabOutcomes == {"none", "RGBA", "RGB", "P", "files", "unexpected", "error"}

\* _get_clipboard_image: the mode of the image it returns, "" for None.
GetClipboardImage(grab) ==
    IF grab = "RGBA" THEN "RGBA"
    ELSE IF grab = "RGB" THEN "RGB"
    ELSE IF grab = "P" THEN "RGB"
    ELSE ""

\* check_clipboard without its time.sleep(0.1).
TaskWakeNoSleep(i) ==
    /\ i \in DOMAIN tasks
    /\ tasks[i].pc = "sleep"
    /\ tasks' = [tasks EXCEPT ![i].pc = "extract"]
    /\ UNCHANGED <<lifeVars, flagVars, chordVars, last_paste_time, log, now,
                   keyVars, cfgVars, concVars, dlgVars>>

\* check_clipboard: time.sleep(0.1) returns.
TaskWake(i) ==
    /\ i \in DOMAIN tasks
    /\ tasks[i].pc = "sleep"
    /\ now >= tasks[i].start + SettleDelay
    /\ tasks' = [tasks EXCEPT ![i].pc = "extract"]
    /\ UNCHANGED <<lifeVars, flagVars, chordVars, last_paste_time, log, now,
                   keyVars, cfgVars, concVars, dlgVars>>

\* check_clipboard clearing the last-trigger time when the read gave no image,
\* so that the next press is not debounced.
TaskExtractResetsDebounce(i, grab) ==
    /\ i \in DOMAIN tasks
    /\ tasks[i].pc = "extract"
    /\ LET image == GetClipboardImage(grab) IN
       /\ tasks' = [tasks EXCEPT ![i].image = image,
                                 ![i].extracts = @ + 1,
                                 ![i].pc = IF image # "" THEN "callback" ELSE "done"]
       /\ last_paste_time' = IF image # "" THEN last_paste_time ELSE 0
    /\ UNCHANGED <<lifeVars, flagVars, chordVars, log, now, keyVars,
                   cfgVars, concVars, dlgVars>>

\* check_clipboard with a _get_clipboard_image that has no try/except: an
\* exception of grabclipboard() ends the thread where it is raised.
TaskExtractUncaught(i, grab) ==
    /\ i \in DOMAIN tasks
    /\ tasks[i].pc = "extract"
    /\ LET image == GetClipboardImage(grab) IN
       tasks' = [tasks EXCEPT ![i].image = image,
                              ![i].extracts = @ + 1,
                              ![i].pc = IF grab = "error" THEN "raised"
                                        ELSE IF image # "" THEN "callback"
                                        ELSE "done"]
    /\ UNCHANGED <<lifeVars, flagVars, chordVars, last_paste_time, log, now,
                   keyVars, cfgVars, concVars, dlgVars>>

\* check_clipboard: image = self._get_clipboard_image()
TaskExtract(i, grab) ==
    /\ i \in DOMAIN tasks
    /\ tasks[i].pc = "extract"
    /\ LET image == GetClipboardImage(grab) IN
       tasks' = [tasks EXCEPT ![i].image = image,
                              ![i].extracts = @ + 1,
                              ![i].pc = IF image # "" THEN "callback" ELSE "done"]
    /\ UNCHANGED <<lifeVars, flagVars, chordVars, last_paste_time, log, now,
                   keyVars, cfgVars, concVars, dlgVars>>

\* check_clipboard: self.on_image_callback(image)
TaskCallback(i) ==
    /\ i \in DOMAIN tasks
    /\ tasks[i].pc = "callback"
    /\ tasks' = [tasks EXCEPT ![i].calls = @ + 1, ![i].pc = "done"]
    /\ UNCHANGED <<lifeVars, flagVars, chordVars, last_paste_time, log, now,
                   keyVars, cfgVars, concVars, dlgVars>>

\* The clock advances by one tick.
Tick ==
    /\ now < MaxTime
    /\ now' = now + 1
    /\ UNCHANGED <<lifeVars, flagVars, chordVars, pasteVars, keyVars, cfgVars,
                   concVars, dlgVars>>

\* --------------------------------------------------------- ShortcutDialog
Letters ==
    <<"a", "b", "c", "d", "e", "f", "g", "h", "i", "j", "k", "l", "m", "n",
      "o", "p", "q", "r", "s", "t", "u", "v", "w", "x", "y", "z">>
Digits == <<"0", "1", "2", "3", "4", "5", "6", "7", "8", "9">>
FunctionKeys ==
    <<"f1", "f2", "f3", "f4", "f5", "f6", "f7", "f8", "f9", "f10", "f11", "f12">>

\* _on_key_press: the name recorded for a key known by its code only; "" when
\* the code is in none of the three ranges (self.key is left as it was).
KeyFromVk(vk) ==
    IF 65 <= vk /\ vk <= 90 THEN Letters[vk - 64]
    ELSE IF 48 <= vk /\ vk <= 57 THEN Digits[vk - 47]
    ELSE IF 112 <= vk /\ vk <= 123 THEN FunctionKeys[vk - 111]
    ELSE ""

\* _on_key_press: the value of self.key after a press of a key that is not a
\* modifier.
RecordedKey(key, old) ==
    IF key.has_char /\ key.char # "" THEN Lower(key.char)
    ELSE IF key.has_name /\ key.name # "" THEN Lower(key.name)
    ELSE IF key.has_vk /\ KeyFromVk(key.vk) # "" THEN KeyFromVk(key.vk)
    ELSE old

\* _on_key_press: the key reaches the comparison 0x41 <= vk with a vk that
\* is None (a KeyCode with neither char nor vk), which raises TypeError.
VkCompareRaises(key) ==
    /\ ~IsModifierKey(key)
    /\ ~(key.has_char /\ key.char # "")
    /\ ~(key.has_name /\ key.name # "")
    /\ key.has_vk /\ key.vk = 0

\* _on_key_press without its test of self.recording.
OnKeyPressNoCheck(key) ==
    IF VkCompareRaises(key)
    THEN /\ dlg_error' = TRUE
         /\ dlg_listener' = FALSE
         /\ UNCHANGED <<dlg_open, recording, modifiers, rec_key, save_enabled>>
    ELSE /\ modifiers' =
              IF IsModifierKey(key) THEN modifiers \cup {KindOf(key)} ELSE modifiers
         /\ rec_key' = IF IsModifierKey(key) THEN rec_key ELSE RecordedKey(key, rec_key)
         /\ UNCHANGED <<dlg_open, recording, dlg_listener, save_enabled, dlg_error>>

\* _on_key_press.  An exception leaves the callback and ends the listener's
\* thread; self.recording stays as it is.
OnKeyPress(key) ==
    IF ~recording
    THEN UNCHANGED dlgVars
    ELSE IF VkCompareRaises(key)
    THEN /\ dlg_error' = TRUE
         /\ dlg_listener' = FALSE
         /\ UNCHANGED <<dlg_open, recording, modifiers, rec_key, save_enabled>>
    ELSE /\ modifiers' =
              IF IsModifierKey(key) THEN modifiers \cup {KindOf(key)} ELSE modifiers
         /\ rec_key' = IF IsModifierKey(key) THEN rec_key ELSE RecordedKey(key, rec_key)
         /\ UNCHANGED <<dlg_open, recording, dlg_listener, save_enabled, dlg_error>>

\* _on_key_release testing self.key alone: a recorded key ends the recording
\* whether or not a modifier was pressed.
OnKeyReleaseKeyOnly(key) ==
    IF ~recording
    THEN UNCHANGED dlgVars
    ELSE IF rec_key # ""
    THEN /\ recording' = FALSE
         /\ dlg_listener' = FALSE
         /\ save_enabled' = TRUE
         /\ UNCHANGED <<dlg_open, modifiers, rec_key, dlg_error>>
    ELSE UNCHANGED dlgVars

\* _on_key_release discarding the kind of a released modifier key from the
\* working set.
OnKeyReleaseDropsModifier(key) ==
    IF ~recording
    THEN UNCHANGED dlgVars
    ELSE IF modifiers # {} /\ rec_key # ""
    THEN /\ recording' = FALSE
         /\ dlg_listener' = FALSE
         /\ save_enabled' = TRUE
         /\ UNCHANGED <<dlg_open, modifiers, rec_key, dlg_error>>
    ELSE /\ modifiers' =
              IF IsModifierKey(key) THEN modifiers \ {KindOf(key)} ELSE modifiers
         /\ UNCHANGED <<dlg_open, recording, rec_key, dlg_listener, save_enabled,
                        dlg_error>>

\* _on_key_release, which ends the recording through stop_recording().
OnKeyRelease(key) ==
    IF ~recording
    THEN UNCHANGED dlgVars
    ELSE IF modifiers # {} /\ rec_key # ""
    THEN /\ recording' = FALSE
         /\ dlg_listener' = FALSE
         /\ save_enabled' = TRUE
         /\ UNCHANGED <<dlg_open, modifiers, rec_key, dlg_error>>
    ELSE UNCHANGED dlgVars

\* ShortcutDialog.__init__ and show(): the fields of a new dialog.
NewDialog ==
    /\ recording' = FALSE
    /\ modifiers' = {}
    /\ rec_key' = ""
    /\ dlg_listener' = FALSE
    /\ save_enabled' = FALSE
    /\ dlg_error' = FALSE

\* change_shortcut: the tray menu opens the dialog.
OpenDialog ==
    /\ ~dlg_open
    /\ dlg_open' = TRUE
    /\ NewDialog
    /\ UNCHANGED <<lifeVars, flagVars, chordVars, pasteVars, now, keyVars,
                   cfgVars, concVars>>

\* toggle_recording: the Record / Stop button, through start_recording or
\* stop_recording.
ToggleRecording ==
    /\ dlg_open
    /\ IF recording
       THEN /\ recording' = FALSE
            /\ dlg_listener' = FALSE
            /\ UNCHANGED <<modifiers, rec_key, save_enabled, late>>
       ELSE /\ recording' = TRUE
            /\ modifiers' = {}
            /\ rec_key' = ""
            /\ save_enabled' = FALSE
            /\ dlg_listener' = TRUE
            /\ late' = FALSE
    /\ UNCHANGED <<dlg_open, dlg_error, lifeVars, flagVars, chordVars, pasteVars, now,
                   down, all_delivered, cfgVars, concVars>>

\* close(): stop_recording() and root.destroy().
CloseDialog ==
    /\ dlg_open
    /\ dlg_open' = FALSE
    /\ NewDialog
    /\ UNCHANGED <<lifeVars, flagVars, chordVars, pasteVars, now, keyVars,
                   cfgVars, concVars>>

\* ------------------------------------------------------------ key events
\* A key goes down (or repeats): the monitor's listener and the dialog's
\* listener each call their on_press callback, if they are running.
KeyPress(key) ==
    /\ down' = IF IsModifierKey(key) THEN down \cup {key} ELSE down
    /\ all_delivered' = (all_delivered /\ (listener # 0 \/ down' = down))
    /\ IF listener # 0 THEN OnPress(key) ELSE UNCHANGED <<flagVars, pasteVars>>
    /\ IF dlg_listener THEN OnKeyPress(key) ELSE UNCHANGED dlgVars
    /\ UNCHANGED <<lifeVars, chordVars, now, cfgVars, concVars, late>>

\* A key goes up.
KeyRelease(key) ==
    /\ IsModifierKey(key) => key \in down
    /\ down' = down \ {key}
    /\ all_delivered' = (all_delivered /\ (listener # 0 \/ down' = down))
    /\ IF listener # 0 THEN OnRelease(key) ELSE UNCHANGED <<flagVars, pasteVars>>
    /\ IF dlg_listener THEN OnKeyRelease(key) ELSE UNCHANGED dlgVars
    /\ UNCHANGED <<lifeVars, chordVars, now, cfgVars, concVars, late>>

\* The thread of a listener that stop_recording() has stopped still calls
\* _on_key_press with an event it had taken.
LateKeyPress(key) ==
    /\ dlg_open /\ ~dlg_listener /\ ~dlg_error /\ ~recording
    /\ OnKeyPress(key)
    /\ late' = TRUE
    /\ UNCHANGED <<lifeVars, flagVars, chordVars, pasteVars, now, down,
                   all_delivered, cfgVars, concVars>>

\* The same for _on_key_release.
LateKeyRelease(key) ==
    /\ dlg_open /\ ~dlg_listener /\ ~dlg_error /\ ~recording
    /\ OnKeyRelease(key)
    /\ late' = TRUE
    /\ UNCHANGED <<lifeVars, flagVars, chordVars, pasteVars, now, down,
                   all_delivered, cfgVars, concVars>>

\* ----------------------------------------------------------- specification
\* The monitor with each callback running to its end before the next event.
Next ==
    \/ Start
    \/ StartFails
    \/ Stop
    \/ \E key \in ModifierKeys \cup PlainKeys : KeyPress(key)
    \/ \E key \in ModifierKeys \cup PlainKeys : KeyRelease(key)
    \/ Tick
    \/ \E i \in DOMAIN tasks : TaskWake(i)
    \/ \E i \in DOMAIN tasks, grab \in GrabOutcomes : TaskExtract(i, grab)
    \/ \E i \in DOMAIN tasks : TaskCallback(i)

Spec == Init /\ [][Next]_vars

\* ------------------------------------------------- interleaved execution
\* The callbacks of the listener threads and reload_shortcut(), statement by
\* statement.  stop() does not wait for a callback in progress, so the thread
\* of a stopped listener may still be in _on_press when the next listener
\* delivers an event.
ConcKeys == {Key("ctrl_l"), KeyCode("^V", 86), Key("f1")}

\* A key goes down while a listener runs: its thread, when it is free, calls
\* _on_press with it.
DeliverPress(key) ==
    /\ listener # 0
    /\ lt[listener].pc = "idle"
    /\ down' = IF IsModifierKey(key) THEN down \cup {key} ELSE down
    /\ lt' = [lt EXCEPT ![listener].pc = "on_press", ![listener].key = key]
    /\ UNCHANGED <<all_delivered, late>>
    /\ UNCHANGED <<lifeVars, flagVars, chordVars, pasteVars, now, cfgVars,
                   rl, dlgVars>>

\* A modifier key goes up while a listener runs: its thread, when it is
\* free, runs _on_release.
DeliverRelease(key) ==
    /\ listener # 0
    /\ lt[listener].pc = "idle"
    /\ key \in down
    /\ down' = down \ {key}
    /\ OnRelease(key)
    /\ UNCHANGED <<lifeVars, chordVars, now, all_delivered, late, cfgVars,
                   concVars, dlgVars>>

\* _on_press: the modifier branches.
OnPressModifiers(t) ==
    /\ lt[t].pc = "on_press"
    /\ LET key == lt[t].key IN
       /\ ctrl_pressed' = (ctrl_pressed \/ IsCtrlKey(key))
       /\ alt_pressed' = (alt_pressed \/ IsAltKey(key))
       /\ shift_pressed' = (shift_pressed \/ IsShiftKey(key))
       /\ lt' = IF IsModifierKey(key)
                THEN [lt EXCEPT ![t] = IdleThread]
                ELSE [lt EXCEPT ![t].pc = "check_mods"]
    /\ UNCHANGED <<lifeVars, chordVars, pasteVars, now, keyVars, cfgVars,
                   rl, dlgVars>>

\* _on_press: self._check_modifiers_match()
OnPressCheckModifiers(t) ==
    /\ lt[t].pc = "check_mods"
    /\ lt' = IF CheckModifiersMatch(required_modifiers)
             THEN [lt EXCEPT ![t].seen_mods = required_modifiers, ![t].pc = "char"]
             ELSE [lt EXCEPT ![t] = IdleThread]
    /\ UNCHANGED <<lifeVars, flagVars, chordVars, pasteVars, now, keyVars,
                   cfgVars, rl, dlgVars>>

\* _is_trigger_key: the check by character.
IsTriggerChar(t) ==
    /\ lt[t].pc = "char"
    /\ lt' = [lt EXCEPT ![t].pc = IF CharMatches(lt[t].key, trigger_key)
                                  THEN "paste" ELSE "vk"]
    /\ UNCHANGED <<lifeVars, flagVars, chordVars, pasteVars, now, keyVars,
                   cfgVars, rl, dlgVars>>

\* _is_trigger_key: the check by virtual key code.
IsTriggerVk(t) ==
    /\ lt[t].pc = "vk"
    /\ lt' = [lt EXCEPT ![t].pc = IF VkMatches(lt[t].key, trigger_vk)
                                  THEN "paste" ELSE "name"]
    /\ UNCHANGED <<lifeVars, flagVars, chordVars, pasteVars, now, keyVars,
                   cfgVars, rl, dlgVars>>

\* _is_trigger_key: the check by name.
IsTriggerName(t) ==
    /\ lt[t].pc = "name"
    /\ lt' = IF NameMatches(lt[t].key, trigger_key)
             THEN [lt EXCEPT ![t].pc = "paste"]
             ELSE [lt EXCEPT ![t] = IdleThread]
    /\ UNCHANGED <<lifeVars, flagVars, chordVars, pasteVars, now, keyVars,
                   cfgVars, rl, dlgVars>>

\* _handle_paste: current_time = time.time()
PasteReadClock(t) ==
    /\ lt[t].pc = "paste"
    /\ lt' = [lt EXCEPT ![t] = [IdleThread EXCEPT !.current_time = now,
                                                  !.pc = "debounce"]]
    /\ UNCHANGED <<lifeVars, flagVars, chordVars, pasteVars, now, keyVars,
                   cfgVars, rl, dlgVars>>

\* _handle_paste: the debounce test, and the return when it is too soon.
PasteCheck(t) ==
    /\ lt[t].pc = "debounce"
    /\ IF Debounced(lt[t].current_time, last_paste_time)
       THEN /\ log' = Logged(FALSE)
            /\ lt' = [lt EXCEPT ![t] = IdleThread]
       ELSE /\ log' = log
            /\ lt' = [lt EXCEPT ![t].pc = "update"]
    /\ UNCHANGED <<lifeVars, flagVars, chordVars, last_paste_time, tasks, now,
                   keyVars, cfgVars, rl, dlgVars>>

\* _handle_paste: self._last_paste_time = current_time
PasteUpdate(t) ==
    /\ lt[t].pc = "update"
    /\ last_paste_time' = lt[t].current_time
    /\ lt' = [lt EXCEPT ![t].pc = "spawn"]
    /\ UNCHANGED <<lifeVars, flagVars, chordVars, tasks, log, now, keyVars,
                   cfgVars, rl, dlgVars>>

\* _handle_paste: thread.start()
PasteSpawn(t) ==
    /\ lt[t].pc = "spawn"
    /\ tasks' = Append(tasks, NewTask(now))
    /\ log' = Logged(TRUE)
    /\ lt' = [lt EXCEPT ![t] = IdleThread]
    /\ UNCHANGED <<lifeVars, flagVars, chordVars, last_paste_time, now, keyVars,
                   cfgVars, rl, dlgVars>>

\* set_shortcut(modifiers, key): the shortcut is stored, the rest of the
\* configuration kept.
StoredShortcut(file, mods, key) ==
    [LoadConfig(file) EXCEPT !["shortcut"] = [modifiers |-> mods, key |-> key]]

\* save_shortcut on the dialog's thread: set_shortcut(...), after which
\* on_shortcut_changed() calls the monitor's reload_shortcut().
SaveAndReload(sc) ==
    /\ rl.pc = "idle"
    /\ config_file' = StoredShortcut(config_file, sc.modifiers, sc.key)
    /\ rl' = [rl EXCEPT !.pc = "get"]
    /\ UNCHANGED <<lifeVars, flagVars, chordVars, pasteVars, now, keyVars, lt, setters,
                   dlgVars>>

\* reload_shortcut: shortcut = get_shortcut()
ReloadGet ==
    /\ rl.pc = "get"
    /\ rl' = [pc |-> "modifiers", shortcut |-> GetShortcut(config_file)]
    /\ UNCHANGED <<lifeVars, flagVars, chordVars, pasteVars, now, keyVars,
                   cfgVars, lt, dlgVars>>

\* reload_shortcut: self.required_modifiers = ...
ReloadModifiers ==
    /\ rl.pc = "modifiers"
    /\ required_modifiers' = LoadedModifiers(rl.shortcut)
    /\ rl' = [rl EXCEPT !.pc = "key"]
    /\ UNCHANGED <<lifeVars, flagVars, trigger_key, trigger_vk, pasteVars, now,
                   keyVars, cfgVars, lt, dlgVars>>

\* reload_shortcut: self.trigger_key = ...
ReloadKey ==
    /\ rl.pc = "key"
    /\ trigger_key' = LoadedKey(rl.shortcut)
    /\ rl' = [rl EXCEPT !.pc = "vk"]
    /\ UNCHANGED <<lifeVars, flagVars, required_modifiers, trigger_vk, pasteVars,
                   now, keyVars, cfgVars, lt, dlgVars>>

\* reload_shortcut: self.trigger_vk = VK_CODES.get(self.trigger_key)
ReloadVk ==
    /\ rl.pc = "vk"
    /\ trigger_vk' = VkGet(trigger_key)
    /\ rl' = IdleReload
    /\ UNCHANGED <<lifeVars, flagVars, required_modifiers, trigger_key, pasteVars,
                   now, keyVars, cfgVars, lt, dlgVars>>

\* The shortcuts the dialog saves.
SavedShortcuts == {DefaultShortcut, [modifiers |-> {"shift"}, key |-> "f1"]}

\* The monitor constructed with no configuration file.
InitConc == Init /\ config_file = NoFile

NextConc ==
    \/ Start
    \/ Stop
    \/ \E key \in ConcKeys : DeliverPress(key)
    \/ \E key \in ConcKeys : DeliverRelease(key)
    \/ \E t \in ListenerIds : OnPressModifiers(t)
    \/ \E t \in ListenerIds : OnPressCheckModifiers(t)
    \/ \E t \in ListenerIds : IsTriggerChar(t)
    \/ \E t \in ListenerIds : IsTriggerVk(t)
    \/ \E t \in ListenerIds : IsTriggerName(t)
    \/ \E t \in ListenerIds : PasteReadClock(t)
    \/ \E t \in ListenerIds : PasteCheck(t)
    \/ \E t \in ListenerIds : PasteUpdate(t)
    \/ \E t \in ListenerIds : PasteSpawn(t)
    \/ \E sc \in SavedShortcuts : SaveAndReload(sc)
    \/ ReloadGet
    \/ ReloadModifiers
    \/ ReloadKey
    \/ ReloadVk

SpecConc == InitConc /\ [][NextConc]_vars

\* ------------------------------------------------- the dialog and the monitor
\* save_shortcut calling on_shortcut_changed() before set_shortcut(...): the
\* monitor reloads the shortcut that was stored before.
SaveShortcutReloadFirst ==
    /\ dlg_open
    /\ save_enabled
    /\ IF modifiers # {} /\ rec_key # ""
       THEN /\ required_modifiers' = LoadedModifiers(GetShortcut(config_file))
            /\ trigger_key' = LoadedKey(GetShortcut(config_file))
            /\ trigger_vk' = LoadedVk(GetShortcut(config_file))
            /\ config_file' = StoredShortcut(config_file, modifiers, rec_key)
            /\ dlg_open' = FALSE
            /\ NewDialog
       ELSE UNCHANGED <<cfgVars, chordVars, dlgVars>>
    /\ UNCHANGED <<lifeVars, flagVars, pasteVars, now, keyVars, concVars, setters>>

\* save_shortcut, the Save button: set_shortcut(...), on_shortcut_changed()
\* (the monitor's reload_shortcut(), here as one step) and close().
SaveShortcut ==
    /\ dlg_open
    /\ save_enabled
    /\ IF modifiers # {} /\ rec_key # ""
       THEN /\ config_file' = StoredShortcut(config_file, modifiers, rec_key)
            /\ required_modifiers' = LoadedModifiers(GetShortcut(config_file'))
            /\ trigger_key' = LoadedKey(GetShortcut(config_file'))
            /\ trigger_vk' = LoadedVk(GetShortcut(config_file'))
            /\ dlg_open' = FALSE
            /\ NewDialog
       ELSE UNCHANGED <<cfgVars, chordVars, dlgVars>>
    /\ UNCHANGED <<lifeVars, flagVars, pasteVars, now, keyVars, concVars, setters>>

\* The keys pressed while the dialog is used: two modifiers, a character key,
\* Ctrl+V's control character, a function key, a key known by its code only,
\* a KeyCode with neither char nor vk, and a key object with no attribute.
DialogKeys ==
    {Key("ctrl_l"), Key("alt_gr"), KeyCode("a", 65), KeyCode("^V", 86),
     Key("f1"), KeyCode("", 66), KeyCode("", 0), BareKey}

\* The keys of a recording and of its replay: the two Ctrl keys, Shift, a
\* character key as pynput reports it with Shift held, a function key, and
\* keys known by their code only (a letter, F12).
RoundTripKeys ==
    {Key("ctrl_l"), Key("ctrl_r"), Key("shift_l"), KeyCode("A", 65),
     Key("f1"), KeyCode("", 66), KeyCode("", 123)}

\* The recording of a chord and the presses that follow it.
NextRoundTrip ==
    \/ Start
    \/ OpenDialog
    \/ ToggleRecording
    \/ SaveShortcut
    \/ \E key \in RoundTripKeys : KeyPress(key)
    \/ \E key \in RoundTripKeys : KeyRelease(key)

SpecRoundTrip == InitConc /\ [][NextRoundTrip]_vars

NextDialog ==
    \/ Start
    \/ OpenDialog
    \/ ToggleRecording
    \/ CloseDialog
    \/ SaveShortcut
    \/ \E key \in DialogKeys : KeyPress(key)
    \/ \E key \in DialogKeys : KeyRelease(key)
    \/ \E key \in DialogKeys : LateKeyPress(key)
    \/ \E key \in DialogKeys : LateKeyRelease(key)

SpecDialog == InitConc /\ [][NextDialog]_vars

\* ------------------------------------------------- reloading the shortcut
\* The shortcuts another writer leaves in config.json while the program
\* runs: a complete one, one whose key is the name of a modifier key, one
\* without 'modifiers', one without 'key', and an empty object.
EditedShortcuts ==
    {[modifiers |-> {"alt"}, key |-> "F1"],
     [modifiers |-> {"shift"}, key |-> "shift_l"],
     [key |-> "f1"],
     [modifiers |-> {"shift"}],
     [k \in {} |-> ""]}

\* A shortcut dict that has both of its fields.
WellFormed(sc) == {"modifiers", "key"} \subseteq DOMAIN sc

\* config.json is rewritten with another shortcut; load_config() reads what
\* the file holds.
EditConfigFile(sc) ==
    /\ config_file' = FileWithShortcut(sc)
    /\ UNCHANGED <<setters, lifeVars, flagVars, chordVars, pasteVars, now, keyVars,
                   concVars, dlgVars>>

\* reload_shortcut(), as one step.
ReloadShortcut ==
    /\ required_modifiers' = LoadedModifiers(GetShortcut(config_file))
    /\ trigger_key' = LoadedKey(GetShortcut(config_file))
    /\ trigger_vk' = VkGet(trigger_key')
    /\ UNCHANGED <<lifeVars, flagVars, pasteVars, now, keyVars, cfgVars,
                   concVars, dlgVars>>

\* The keys pressed around a reload.
ReloadKeys ==
    {Key("ctrl_l"), Key("shift_l"), Key("alt_gr"), KeyCode("v", 86),
     KeyCode("V", 86), KeyCode("a", 65), Key("f1")}

NextReload ==
    \/ Start
    \/ \E sc \in EditedShortcuts : EditConfigFile(sc)
    \/ ReloadShortcut
    \/ \E key \in ReloadKeys : KeyPress(key)
    \/ \E key \in ReloadKeys : KeyRelease(key)

SpecReload == Init /\ [][NextReload]_vars

\* ------------------------------------------------- the configuration setters
\* config = load_config(); config[key] = value
SetterLoad(s, value) ==
    /\ setters[s].pc = "idle"
    /\ setters' = [setters EXCEPT ![s] =
           [pc |-> "open",
            config |-> [LoadConfig(config_file) EXCEPT ![SetterKey(s)] = value]]]
    /\ UNCHANGED <<lifeVars, flagVars, chordVars, pasteVars, now, keyVars,
                   config_file, concVars, dlgVars>>

\* save_config: open(config_path, 'w') empties the file; until the dump it
\* does not parse, and load_config returns the defaults.
SetterOpen(s) ==
    /\ setters[s].pc = "open"
    /\ config_file' = NoFile
    /\ setters' = [setters EXCEPT ![s].pc = "dump"]
    /\ UNCHANGED <<lifeVars, flagVars, chordVars, pasteVars, now, keyVars,
                   concVars, dlgVars>>

\* save_config: json.dump(config, f) and the end of the with block; the
\* setter returns.  The local config is kept as the record of what was written.
SetterDump(s) ==
    /\ setters[s].pc = "dump"
    /\ config_file' = setters[s].config
    /\ setters' = [setters EXCEPT ![s].pc = "done"]
    /\ UNCHANGED <<lifeVars, flagVars, chordVars, pasteVars, now, keyVars,
                   concVars, dlgVars>>

NextConfig ==
    \/ \E s \in SetterNames : \E value \in SetterValues(s) : SetterLoad(s, value)
    \/ \E s \in SetterNames : SetterOpen(s)
    \/ \E s \in SetterNames : SetterDump(s)

SpecConfig == Init /\ [][NextConfig]_vars

\* ------------------------------------------------------------------ claims
\* The modifier kinds with a physical key down.
HeldKinds == {KindOf(key) : key \in down}

\* C1: on a press of a key that is not a modifier, delivered to _on_press,
\* the hotkey is detected (_handle_paste is called) if and only if the
\* modifier kinds held at that moment are exactly the chord's and the key is
\* the chord's trigger key.  Stated for runs in which every change of a
\* modifier key was delivered to the monitor.
C1_DetectedIffHeldExactly ==
    [][\A key \in PlainKeys :
         (KeyPress(key) /\ listener # 0 /\ all_delivered) =>
            ((log' # log) <=>
               (HeldKinds = required_modifiers
                  /\ IsTriggerKey(key, trigger_key, trigger_vk)))]_vars

\* C2: a call of _handle_paste starts a capture thread if and only if at
\* least debounce_interval has passed since the last thread was started (or
\* none was started yet); it then starts exactly one, and none otherwise.
C2_Debounce ==
    [][(log' # log) =>
         /\ log'.fired <=>
              (tasks = <<>> \/ now - tasks[Len(tasks)].start >= DebounceInterval)
         /\ log'.fired => Len(tasks') = Len(tasks) + 1
         /\ ~log'.fired => tasks' = tasks]_vars

\* Two matches debounce_interval apart started two threads, and a third
\* match right after the second started none.
C2_Witness ==
    /\ Len(tasks) = 2
    /\ tasks[2].start - tasks[1].start = DebounceInterval
    /\ now = tasks[2].start
    /\ log.odd /\ ~log.fired

\* C5: a capture thread reads the clipboard only after the settle delay, at
\* most once, and calls on_image_callback exactly once if the read gave an
\* image and never otherwise.
C5_CaptureTask ==
    \A i \in DOMAIN tasks :
        LET t == tasks[i] IN
        /\ t.pc # "sleep" => now >= t.start + SettleDelay
        /\ t.pc \in {"sleep", "extract"} => t.extracts = 0 /\ t.calls = 0
        /\ t.pc = "callback" => t.extracts = 1 /\ t.calls = 0 /\ t.image # ""
        /\ t.pc = "done" =>
             t.extracts = 1 /\ t.calls = (IF t.image # "" THEN 1 ELSE 0)

\* One thread ended after calling the callback, another without calling it.
C5_Witness ==
    /\ Len(tasks) = 2
    /\ tasks[1].pc = "done" /\ tasks[1].calls = 1
    /\ tasks[2].pc = "done" /\ tasks[2].calls = 0

\* C6: while the monitor is stopped, no key event changes the modifier flags
\* or the last-trigger time, _handle_paste is not called and no capture
\* thread is started.
C6_StoppedIgnoresKeys ==
    [][(~running /\ ~running') =>
         /\ UNCHANGED <<flagVars, last_paste_time, log>>
         /\ Len(tasks') = Len(tasks)]_vars

\* Stopped after a capture, with a modifier key pressed since the stop.
C6_Witness ==
    /\ ~running
    /\ tasks # <<>>
    /\ ~all_delivered
    /\ Key("ctrl_l") \in down
    /\ ~ctrl_pressed

\* C7: stop() leaves every capture thread as it is, and a thread goes on
\* whether or not the monitor is running.
C7_StopLeavesTasks ==
    /\ [][(running /\ ~running') => tasks' = tasks]_vars
    /\ [](\A i \in DOMAIN tasks :
            /\ tasks[i].pc = "callback" => ENABLED TaskCallback(i)
            /\ tasks[i].pc = "extract" => ENABLED TaskExtract(i, "RGB")
            /\ (tasks[i].pc = "sleep" /\ now >= tasks[i].start + SettleDelay)
                 => ENABLED TaskWake(i))

\* A capture thread is about to call on_image_callback and the monitor is
\* stopped.
C7_Witness == ~running /\ \E i \in DOMAIN tasks : tasks[i].pc = "callback"

\* C8: the step in which _handle_paste starts a capture thread takes no time
\* and leaves the new thread in its settle delay, with nothing read and the
\* callback not called, and the other threads as they were.
C8_HandlerDoesNotWait ==
    [][(Len(tasks') > Len(tasks)) =>
         /\ now' = now
         /\ Len(tasks') = Len(tasks) + 1
         /\ SubSeq(tasks', 1, Len(tasks)) = tasks
         /\ LET t == tasks'[Len(tasks')] IN
            t.pc = "sleep" /\ t.extracts = 0 /\ t.calls = 0]_vars

\* A second capture thread was started while the first had not ended.
C8_Witness == Len(tasks) = 2 /\ tasks[1].pc # "done" /\ tasks[2].pc = "sleep"

\* C9: a start() of the stopped monitor leaves all three modifier flags
\* false.
C9_FlagsResetOnRestart ==
    [][(~running /\ running') =>
         (~ctrl_pressed' /\ ~alt_pressed' /\ ~shift_pressed')]_vars

\* C3: of the capture threads started, no two are started less than
\* debounce_interval apart, however the _handle_paste calls of two listener
\* threads interleave.
C3_OneFirePerWindow ==
    \A i, j \in DOMAIN tasks :
        i < j => tasks[j].start - tasks[i].start >= DebounceInterval

\* C4: a key press accepted as the hotkey matches, with the required
\* modifiers it was compared with, one complete configuration: the trigger
\* key and code of a shortcut whose modifiers are those.
C4_MatchedOneChord ==
    \A t \in ListenerIds :
        lt[t].pc = "paste" =>
            \E sc \in SavedShortcuts :
                /\ lt[t].seen_mods = LoadedModifiers(sc)
                /\ IsTriggerKey(lt[t].key, LoadedKey(sc), LoadedVk(sc))

\* C10: while recording, a pressed modifier is added to the working set and
\* leaves the recorded key alone; a pressed key that is not a modifier is
\* recorded if the working set is not empty and no key is recorded yet, and
\* changes nothing otherwise.
C10_FirstKeyWithModifier ==
    [][\A key \in DialogKeys :
         (KeyPress(key) /\ recording /\ dlg_listener) =>
            IF IsModifierKey(key)
            THEN modifiers' = modifiers \cup {KindOf(key)} /\ rec_key' = rec_key
            ELSE /\ modifiers' = modifiers
                 /\ rec_key' = IF modifiers # {} /\ rec_key = ""
                               THEN RecordedKey(key, rec_key)
                               ELSE rec_key]_vars

\* C11: a key release handled while recording ends the recording and enables
\* Save if the working modifier set is not empty and a key is recorded; on
\* any other release the recording goes on and Save stays as it is.  Save is
\* enabled by nothing else.
C11_AutoStop ==
    /\ [][\A key \in DialogKeys :
            (KeyRelease(key) /\ recording /\ dlg_listener) =>
               IF modifiers # {} /\ rec_key # ""
               THEN ~recording' /\ ~dlg_listener' /\ save_enabled'
                    /\ UNCHANGED <<modifiers, rec_key>>
               ELSE UNCHANGED dlgVars]_vars
    /\ [][(~save_enabled /\ save_enabled') =>
            (recording /\ modifiers # {} /\ rec_key # "")]_vars

\* A recording ended by itself: Save is enabled with a chord recorded.
C11_Witness ==
    dlg_open /\ ~recording /\ save_enabled /\ modifiers = {"ctrl"} /\ rec_key = "a"

\* C12: a save_shortcut with an empty modifier set or no recorded key, and a
\* reload_shortcut that reads a shortcut without its modifiers or without its
\* key, leave required_modifiers, trigger_key and trigger_vk as they were.
C12_MalformedKeepsChord ==
    /\ [][(SaveShortcut /\ (modifiers = {} \/ rec_key = "")) =>
            UNCHANGED chordVars]_vars
    /\ [][(ReloadShortcut /\ ~WellFormed(GetShortcut(config_file))) =>
            UNCHANGED chordVars]_vars

\* C13: _get_clipboard_image returns None, and raises nothing, when
\* grabclipboard() raises, gives a list of files, gives nothing or gives a
\* value of another type; the capture thread then ends without calling
\* on_image_callback.  No capture thread ever ends by an exception.
C13_ExtractNeverRaises ==
    /\ [][\A i \in DOMAIN tasks :
            \A grab \in {"error", "files", "none", "unexpected"} :
               TaskExtract(i, grab) =>
                  /\ GetClipboardImage(grab) = ""
                  /\ tasks'[i].image = ""
                  /\ tasks'[i].pc = "done"
                  /\ tasks'[i].calls = 0]_vars
    /\ [](\A i \in DOMAIN tasks :
            /\ tasks[i].pc \in {"sleep", "extract", "callback", "done"}
            /\ (tasks[i].pc = "done" /\ tasks[i].image = "") => tasks[i].calls = 0)

\* A capture thread read the clipboard, got no image and ended without a
\* call of the callback.
C13_Witness ==
    \E i \in DOMAIN tasks :
        /\ tasks[i].pc = "done"
        /\ tasks[i].extracts = 1
        /\ tasks[i].image = ""
        /\ tasks[i].calls = 0

\* C14: a press or a release of a modifier key, delivered to the monitor,
\* sets or clears the flag of its kind and nothing else: the other flags, the
\* last-trigger time, the capture threads and the debug output stay as they
\* are, whatever the chord's trigger key is.
C14_ModifierOnlyUpdatesFlag ==
    [][\A key \in {k \in ReloadKeys : IsModifierKey(k)} :
         /\ (KeyPress(key) /\ listener # 0) =>
               /\ UNCHANGED pasteVars
               /\ ctrl_pressed' = (ctrl_pressed \/ IsCtrlKey(key))
               /\ alt_pressed' = (alt_pressed \/ IsAltKey(key))
               /\ shift_pressed' = (shift_pressed \/ IsShiftKey(key))
         /\ (KeyRelease(key) /\ listener # 0) =>
               /\ UNCHANGED pasteVars
               /\ ctrl_pressed' = (ctrl_pressed /\ ~IsCtrlKey(key))
               /\ alt_pressed' = (alt_pressed /\ ~IsAltKey(key))
               /\ shift_pressed' = (shift_pressed /\ ~IsShiftKey(key))]_vars

\* The chord is Shift + the key named shift_l, the left Shift key was pressed
\* with the monitor listening, and no hotkey was detected.
C14_Witness ==
    /\ listener # 0
    /\ trigger_key = "shift_l"
    /\ required_modifiers = {"shift"}
    /\ all_delivered
    /\ Key("shift_l") \in down
    /\ shift_pressed /\ ~ctrl_pressed /\ ~alt_pressed
    /\ tasks = <<>>
    /\ ~log.odd

\* C15: the trigger key is held lower-cased, and a key pressed with the
\* required modifiers is taken as the trigger key if and only if its
\* character, lower-cased, is the trigger key, or its code is the chord's
\* code (when the chord has one), or its name, lower-cased, is the trigger
\* key.
C15_IsTriggerKey ==
    /\ [](trigger_key = Lower(trigger_key))
    /\ [][\A key \in {k \in ReloadKeys : ~IsModifierKey(k)} :
            (KeyPress(key) /\ listener # 0 /\ CurrentModifiers = required_modifiers)
              => ((log' # log) <=>
                    \/ key.has_char /\ key.char # ""
                         /\ Lower(key.char) = Lower(trigger_key)
                    \/ key.has_vk /\ VkGet(trigger_key) # 0
                         /\ key.vk = VkGet(trigger_key)
                    \/ key.has_name /\ key.name # ""
                         /\ Lower(key.name) = Lower(trigger_key))]_vars

\* The stored key is the upper-case "F1"; the chord Alt+f1 loaded from it
\* was matched by the key named f1.
C15_Witness ==
    /\ DictGet(GetShortcut(config_file), "key", "") = "F1"
    /\ trigger_key = "f1"
    /\ required_modifiers = {"alt"}
    /\ alt_pressed /\ ~ctrl_pressed /\ ~shift_pressed
    /\ log.fired
    /\ Len(tasks) = 1

\* C16: a press of a key with no character, no code and no name, whether the
\* key object lacks the attributes or holds None in them, ends in no error
\* and changes nothing: in the monitor the flags, the last-trigger time and
\* the capture threads stay as they are, and in a recording dialog the
\* recorded key stays as it is.
C16_EmptyKeyIgnored ==
    [][\A key \in {BareKey, KeyCode("", 0)} :
         KeyPress(key) =>
            /\ UNCHANGED <<flagVars, pasteVars>>
            /\ rec_key' = rec_key
            /\ dlg_error' = dlg_error]_vars

\* C19: no step of a capture thread (the end of its sleep, its read of the
\* clipboard whatever the read gives, its call of the callback) changes the
\* modifier flags, the chord, the running flag, the listener or the
\* last-trigger time.
C19_CaptureLeavesDetector ==
    [][(\E i \in DOMAIN tasks :
           \/ TaskWake(i)
           \/ \E grab \in GrabOutcomes : TaskExtract(i, grab)
           \/ TaskCallback(i))
         => UNCHANGED <<flagVars, chordVars, lifeVars, last_paste_time, log>>]_vars

\* A capture thread ended on a failed read while the monitor runs with Ctrl
\* held, and the last-trigger time is still the time of its trigger.
C19_Witness ==
    /\ running
    /\ ctrl_pressed
    /\ Len(tasks) = 1
    /\ tasks[1].pc = "done"
    /\ tasks[1].image = ""
    /\ last_paste_time = tasks[1].start

\* C20: a save_shortcut with a modifier set and a recorded key ends with the
\* recorded chord stored in the configuration and loaded in the monitor
\* (required_modifiers, trigger_key, and the code of the key), and the dialog
\* closed; and whenever the monitor's chord changes, it changes to the chord
\* the configuration holds after the step, so never ahead of the stored one.
C20_PersistThenReload ==
    /\ [][(SaveShortcut /\ modifiers # {} /\ rec_key # "") =>
            /\ GetShortcut(config_file') = [modifiers |-> modifiers, key |-> rec_key]
            /\ required_modifiers' = modifiers
            /\ trigger_key' = rec_key
            /\ trigger_vk' = VkGet(rec_key)
            /\ ~dlg_open']_vars
    /\ [][(chordVars' # chordVars) =>
            /\ required_modifiers' = LoadedModifiers(GetShortcut(config_file'))
            /\ trigger_key' = LoadedKey(GetShortcut(config_file'))
            /\ trigger_vk' = LoadedVk(GetShortcut(config_file'))]_vars

\* The chord Ctrl+Alt+F1 was recorded and saved: it is stored and it is the
\* monitor's chord, and the dialog is closed.
C20_Witness ==
    /\ ~dlg_open
    /\ config_file # NoFile
    /\ GetShortcut(config_file) = [modifiers |-> {"ctrl", "alt"}, key |-> "f1"]
    /\ required_modifiers = {"ctrl", "alt"}
    /\ trigger_key = "f1"
    /\ trigger_vk = 112

\* C21: while the dialog is open and its recording is stopped, no step
\* changes the working modifier set or the recorded key, and a key event that
\* the stopped listener still delivers changes nothing of the dialog.
C21_StoppedRecordingFrozen ==
    /\ [][(dlg_open /\ dlg_open' /\ ~recording /\ ~recording') =>
            UNCHANGED <<modifiers, rec_key>>]_vars
    /\ [][\A key \in DialogKeys :
            (LateKeyPress(key) \/ LateKeyRelease(key)) => UNCHANGED dlgVars]_vars

\* The recording of Ctrl+a ended by itself, a late event reached the dialog,
\* and the candidate is still Ctrl+a with Save enabled.
C21_Witness ==
    /\ late
    /\ dlg_open /\ ~recording /\ save_enabled
    /\ modifiers = {"ctrl"}
    /\ rec_key = "a"

\* C22: in a run in which every change of a modifier key was delivered to
\* the monitor, the flag of each modifier kind is true if and only if a
\* physical key of that kind is down.
C22_FlagIffHeld ==
    all_delivered =>
        /\ ctrl_pressed <=> ("ctrl" \in HeldKinds)
        /\ alt_pressed <=> ("alt" \in HeldKinds)
        /\ shift_pressed <=> ("shift" \in HeldKinds)

\* C23: a call of _handle_paste that is suppressed leaves the last-trigger
\* time as it is, and one that fires sets it to the current time; a call
\* fires whenever debounce_interval has passed since the last-trigger time,
\* and the first call after construction fires.
C23_WindowFromLastFire ==
    [][(log' # log) =>
         /\ ~log'.fired => last_paste_time' = last_paste_time
         /\ log'.fired => last_paste_time' = now
         /\ (now - last_paste_time >= DebounceInterval) => log'.fired
         /\ (tasks = <<>>) => log'.fired]_vars

\* A press fired, at least one press after it was suppressed, and a press
\* debounce_interval after the first fired again.
C23_Witness ==
    /\ Len(tasks) = 2
    /\ tasks[2].start = tasks[1].start + DebounceInterval
    /\ last_paste_time = tasks[2].start
    /\ log.odd /\ log.fired

\* C24, as claimed: when a key that is not a modifier is recorded, the
\* working set is the set of modifier kinds physically held at that moment,
\* and a modifier pressed once a key is recorded does not enter the set.
C24_CandidateIsHeld ==
    [][\A key \in DialogKeys :
         (KeyPress(key) /\ recording /\ dlg_listener) =>
            /\ (~IsModifierKey(key) /\ rec_key' # "") => modifiers' = HeldKinds
            /\ (IsModifierKey(key) /\ rec_key # "") => modifiers' = modifiers]_vars

\* C24, amended: the working set is the set of the modifier kinds pressed
\* since the recording started.  It is empty when a recording starts, a
\* delivered press of a modifier key adds its kind whether or not a key is
\* recorded already, and no other step of a recording, a release included,
\* changes it.
C24_CandidateAccumulates ==
    /\ [][(~recording /\ recording') => modifiers' = {}]_vars
    /\ [][\A key \in DialogKeys :
            (KeyPress(key) /\ recording /\ dlg_listener /\ recording') =>
               modifiers' = modifiers \cup
                  (IF IsModifierKey(key) THEN {KindOf(key)} ELSE {})]_vars
    /\ [][(recording /\ ~\E key \in DialogKeys : KeyPress(key) /\ dlg_listener)
            => modifiers' = modifiers \/ ~dlg_open']_vars

\* Ctrl was pressed and released, then Alt was pressed and held and the key
\* a recorded: the working set holds both kinds.
C24_Witness ==
    /\ recording
    /\ modifiers = {"ctrl", "alt"}
    /\ rec_key = "a"
    /\ down = {Key("alt_gr")}

\* C25: running is true if and only if a listener exists, whatever calls of
\* start() and stop() were made and whether or not a start() failed, and a
\* start() of the running monitor leaves the listener it has.
C25_RunningIffListener ==
    /\ [](running <=> (listener # 0))
    /\ [][(running /\ running') => listener' = listener]_vars

\* C26: once the dialog has saved a chord, a press of a key that the dialog
\* records as the chord's key, made with exactly the chord's modifier kinds
\* held, is detected as the hotkey by _on_press.  Stated for runs in which
\* every change of a modifier key was delivered to the monitor.
C26_RoundTrip ==
    [][\A key \in RoundTripKeys :
         (KeyPress(key) /\ listener # 0 /\ all_delivered
            /\ config_file # NoFile
            /\ ~IsModifierKey(key)
            /\ RecordedKey(key, "") = trigger_key
            /\ HeldKinds = required_modifiers)
           => log' # log]_vars

\* C27: each setter changes only its own key of the stored configuration and
\* keeps the others, also when setters run concurrently on different threads:
\* once no setter is in progress, the stored configuration holds the value of
\* every setter that has completed.
C27_BothUpdatesStored ==
    (\A t \in SetterNames : setters[t].pc \in {"idle", "done"})
      => \A s \in SetterNames :
           setters[s].pc = "done"
             => /\ SetterKey(s) \in DOMAIN config_file
                /\ config_file[SetterKey(s)] = setters[s].config[SetterKey(s)]

====
